---- MODULE Spec2Model ----
(***************************************************************************)
(* A model of the subtitle translation pipeline of gemini-srt-translator-  *)
(* web: Translator.translate_subtitle and Translator._translate_with_retry *)
(* (src/backend/translator.py), driven by the endpoints of src/main.py.    *)
(*                                                                         *)
(* Text is modelled character by character: a string is a sequence of      *)
(* one-character strings, so that strip(), split() and join() do what the  *)
(* Python code does.  Coroutines run as asyncio runs them: the code        *)
(* between two suspending awaits is not interleaved with anything else     *)
(* (variable running names the coroutine that holds the event loop).       *)
(***************************************************************************)
EXTENDS Naturals, Sequences, FiniteSets, TLC

VARIABLES
    config,          \* config_manager.config, the dict translator.config aliases
    model_name,      \* Translator.model_name, set by _initialize
    cls_cache,       \* the class attribute Translator._cache
    inst_cache,      \* the instance attribute self._cache, when _load_cache set one
    cache_file,      \* .translation_cache.json
    jobs,            \* one record per translate_subtitle invocation
    running,         \* the job holding the event loop, or NoJob
    since_request,   \* seconds since the last remote call started, up to the interval
    last_gap,        \* seconds between the starts of the last two remote calls
    obtained,        \* history: key -> first translation obtained since the last clear
    remote,          \* "translate": the remote translates; "echo": returns text unchanged
    files,           \* which subtitle files are on disk: "some", "two" or "well"
    timed,           \* whether this specification lets time pass
    slots,           \* the jobs this specification lets start
    budget,          \* how many more environment steps of each kind may happen
    matcher,         \* one call of find_video_matches: its arguments and locals
    broadcaster,     \* the LogBroadcaster of main.py and the queues it handed out
    request,         \* one POST /translate/ request: its entries and results
    translator       \* the Translator instance: what _initialize made of it

vars == <<config, model_name, cls_cache, inst_cache, cache_file, jobs, running,
          since_request, last_gap, obtained, remote, files, timed, slots, budget,
          matcher, broadcaster, request, translator>>

----------------------------------------------------------------------------
(* Bounds of the model *)

MaxConfigUpdates == 1   \* POST /config/ requests in one behaviour
MaxClears == 1          \* POST /clear_cache requests in one behaviour
MaxBlocks == 2          \* blocks of a generated well-formed file
MaxFiles == 2           \* subtitle files, and video files, given to find_video_matches
MaxLogs == 4            \* log records emitted in one behaviour of the broadcaster alone
history_maxlen == 2     \* deque(maxlen=100) of LogBroadcaster, scaled down
queue_maxsize == 3      \* asyncio.Queue(maxsize=200) of subscribe, scaled down
MaxEntries == 3         \* entries of selected_files in a POST /translate/ request

Jobs == {1, 2}
NoJob == 0

----------------------------------------------------------------------------
(* Python's str operations, on sequences of characters *)

\* str.isspace for the characters of the model
IsSpace(c) == c \in {" ", "\n", "\r"}

RECURSIVE LStrip(_)
LStrip(s) ==
    IF s = <<>> THEN <<>>
    ELSE IF IsSpace(Head(s)) THEN LStrip(Tail(s)) ELSE s

RECURSIVE RStrip(_)
RStrip(s) ==
    IF s = <<>> THEN <<>>
    ELSE IF IsSpace(s[Len(s)]) THEN RStrip(SubSeq(s, 1, Len(s) - 1)) ELSE s

\* s.strip()
Strip(s) == RStrip(LStrip(s))

\* s.split(sep) for a separator of one or two characters: non-overlapping
\* matches, left to right; cur is the piece being read
RECURSIVE SplitAcc(_, _, _)
SplitAcc(s, sep, cur) ==
    IF s = <<>> THEN <<cur>>
    ELSE IF Len(s) >= Len(sep) /\ SubSeq(s, 1, Len(sep)) = sep
         THEN <<cur>> \o SplitAcc(SubSeq(s, Len(sep) + 1, Len(s)), sep, <<>>)
         ELSE SplitAcc(Tail(s), sep, Append(cur, Head(s)))

Split(s, sep) == SplitAcc(s, sep, <<>>)

\* sep.join(parts)
RECURSIVE Join(_, _)
Join(parts, sep) ==
    IF parts = <<>> THEN <<>>
    ELSE IF Len(parts) = 1 THEN parts[1]
    ELSE parts[1] \o sep \o Join(Tail(parts), sep)

NonBlank(s) == Strip(s) # <<>>

\* [x for x in xs if x.strip()]
RECURSIVE FilterNonBlank(_)
FilterNonBlank(xs) ==
    IF xs = <<>> THEN <<>>
    ELSE (IF NonBlank(Head(xs)) THEN <<Head(xs)>> ELSE <<>>) \o FilterNonBlank(Tail(xs))

\* content.replace('\r\n', '\n')
RECURSIVE ReplaceCRLF(_)
ReplaceCRLF(s) ==
    IF s = <<>> THEN <<>>
    ELSE IF Len(s) >= 2 /\ s[1] = "\r" /\ s[2] = "\n"
         THEN <<"\n">> \o ReplaceCRLF(SubSeq(s, 3, Len(s)))
         ELSE <<Head(s)>> \o ReplaceCRLF(Tail(s))

\* f.read() of a file opened with open(path, 'r'): universal newlines turn
\* "\r\n" and a lone "\r" into "\n"
RECURSIVE ReadText(_)
ReadText(s) ==
    IF s = <<>> THEN <<>>
    ELSE IF Len(s) >= 2 /\ s[1] = "\r" /\ s[2] = "\n"
         THEN <<"\n">> \o ReadText(SubSeq(s, 3, Len(s)))
         ELSE IF s[1] = "\r" THEN <<"\n">> \o ReadText(Tail(s))
         ELSE <<Head(s)>> \o ReadText(Tail(s))

\* [x.strip() for x in xs]
StripAll(xs) == [k \in 1..Len(xs) |-> Strip(xs[k])]

\* blocks = [b.strip() for b in content.replace('\r\n', '\n').split('\n\n') if b.strip()]
SplitBlocks(content) ==
    StripAll(FilterNonBlank(Split(ReplaceCRLF(content), <<"\n", "\n">>)))

\* lines = [l for l in block.split('\n') if l.strip()]
BlockLines(block) == FilterNonBlank(Split(block, <<"\n">>))

\* header = '\n'.join(lines[:2])
\* A faulty variant: only the index line is kept
HeaderIndexOnly(lines) == lines[1]

Header(lines) == Join(SubSeq(lines, 1, 2), <<"\n">>)

\* text = '\n'.join(lines[2:])
Text(lines) == Join(SubSeq(lines, 3, Len(lines)), <<"\n">>)

\* translated_block = f"{header}\n{translated_text}"
Rebuild(header, translated_text) == header \o <<"\n">> \o translated_text

----------------------------------------------------------------------------
(* Program constants *)

max_retries == 3            \* _translate_with_retry(text, max_retries=3)
base_delay == 5             \* base_delay = 5
delay_cap == 60             \* min(..., 60)
min_request_interval == 6   \* 60 / 10

Languages == {"French", "German"}
Codes == {"fr", "de"}

\* str(e).lower() of an exception, as far as the code reads it:
\* rate: it contains "429", "quota" or "rate limit";
\* safety: it contains "safety" or "block"
Errors == [rate : BOOLEAN, safety : BOOLEAN]

\* ValueError(f"Content blocked due to: {block_reason}")
ContentBlocked == [rate |-> FALSE, safety |-> TRUE]
\* ValueError("Empty response from model")
EmptyResponse == [rate |-> FALSE, safety |-> FALSE]

----------------------------------------------------------------------------
(* Dictionaries *)

EmptyDict == <<>>

DictPut(d, k, v) == [x \in DOMAIN d \cup {k} |-> IF x = k THEN v ELSE d[x]]

\* config_manager.update(new_config): dict.update
DictUpdate(d, new) == [x \in DOMAIN d \cup DOMAIN new |-> IF x \in DOMAIN new THEN new[x] ELSE d[x]]

----------------------------------------------------------------------------
(* The remote generative-language API *)

Letter(language) == IF language = "French" THEN "F" ELSE "G"

\* A translation of text into language; v tells two wordings apart
Translation(language, text, v) ==
    <<Letter(language)>> \o text \o (IF v = 2 THEN <<"!">> ELSE <<>>)

\* The values response.text may take, when it is not empty, for a prompt asking
\* for language: a translation, or another one inside white space, or white
\* space alone
ResponseTexts(language, text) ==
    IF remote = "echo" THEN {text} \ {<<>>}
    ELSE {Translation(language, text, 1),
          <<" ">> \o Translation(language, text, 2) \o <<"\n">>,
          <<" ">>}

\* What _translate_with_retry may store or return for a successful call
Translations(language, text) == {Strip(r) : r \in ResponseTexts(language, text)}

----------------------------------------------------------------------------
(* The translator's cache *)

\* self._cache: the instance attribute when _load_cache assigned one, else the
\* class attribute
Cache == IF inst_cache.set THEN inst_cache.d ELSE cls_cache

\* _get_cache_key(text): the md5 digest of the JSON of these four fields,
\* modelled as the four fields themselves
CacheKey(text) ==
    [text |-> text, model |-> model_name,
     language |-> config["language"], language_code |-> config["language_code"]]

----------------------------------------------------------------------------
(* Jobs: invocations of translate_subtitle *)

IdleJob ==
    [pc |-> "idle", cb |-> "none", subtitle |-> <<>>, blocks |-> <<>>, i |-> 1,
     translated_blocks |-> <<>>, outcomes |-> <<>>, available |-> <<>>,
     attempts |-> <<>>, output |-> <<>>,
     header |-> <<>>, text |-> <<>>, cache_key |-> <<>>, attempt |-> 0,
     prompt_language |-> "", translated |-> <<>>,
     last_exception |-> <<>>, wake |-> 0, issued |-> 0, failures |-> "none",
     later |-> <<>>, call |-> "none", result |-> <<>>]

\* The seconds a sleep of d seconds has left when it starts
Wake(d) == IF timed THEN d ELSE 0

\* A faulty variant: the delay grows by base_delay with each attempt
DelayLinear(attempt, jitter) ==
    LET d == base_delay * (attempt + 1) + jitter
    IN  IF d < delay_cap THEN d ELSE delay_cap

\* delay = min(base_delay * (2 ** attempt) + random.uniform(0, 1), 60)
Delay(attempt, jitter) ==
    LET d == base_delay * (2 ^ attempt) + jitter
    IN  IF d < delay_cap THEN d ELSE delay_cap

\* History: a remote call starts
NoteRequest ==
    IF timed
    THEN last_gap' = since_request /\ since_request' = <<0>>
    ELSE UNCHANGED <<since_request, last_gap>>

\* A faulty variant: the block is skipped instead of kept
AppendedNothing(job, block, how, at_hand) ==
    [job EXCEPT !.outcomes = Append(@, how),
                !.available = Append(@, at_hand),
                !.i = @ + 1]

\* translate_subtitle appends a block and goes on to the next one without
\* suspending (the except branch, the malformed block).  History: how the block
\* was dealt with, and the translation that was at hand for it, if any
Appended(job, block, how, at_hand) ==
    [job EXCEPT !.translated_blocks = Append(@, block),
                !.outcomes = Append(@, how),
                !.available = Append(@, at_hand),
                !.i = @ + 1]

\* _translate_with_retry returns value: translate_subtitle rebuilds the block,
\* appends it and awaits asyncio.sleep(1).  History: attempts, the number of
\* remote calls this call of _translate_with_retry issued
Returned(job, value, how) ==
    [job EXCEPT !.translated_blocks = Append(@, Rebuild(job.header, value)),
                !.outcomes = Append(@, how),
                !.attempts = Append(@, job.issued),
                !.available = Append(@, IF how \in {"cached", "translated"}
                                        THEN <<value>> ELSE <<>>),
                !.call = "returned",
                !.result = <<value>>,
                !.pc = "sleep_block",
                !.wake = Wake(1)]

\* One attempt: the prompt is built from the configuration as it is now and the
\* remote call is issued
Attempt(job) ==
    [job EXCEPT !.prompt_language = config["language"],
                !.issued = @ + 1,
                !.pc = "await_remote"]

----------------------------------------------------------------------------
(* translate_subtitle *)

Missing == <<"?">>      \* a path with no file behind it

\* The call: the file is read and split into blocks.  cb is the
\* progress_callback argument: "none" (the default), or "sync", the plain
\* function translate_files_endpoint passes.
translate_subtitle(j, f, cb) ==
    /\ running = NoJob
    /\ j \in slots
    /\ jobs[j].pc = "idle"
    /\ \A k \in slots : k < j => jobs[k].pc # "idle"
    /\ IF f = Missing
       THEN \* open() raises; the outer except logs and raises again
            /\ jobs' = [jobs EXCEPT ![j] = [IdleJob EXCEPT !.pc = "failed", !.cb = cb]]
            /\ UNCHANGED running
       ELSE /\ jobs' = [jobs EXCEPT ![j] =
                   [IdleJob EXCEPT !.pc = "loop", !.cb = cb, !.subtitle = f,
                                   !.blocks = SplitBlocks(ReadText(f))]]
            /\ running' = j
    /\ UNCHANGED <<config, model_name, cls_cache, inst_cache, cache_file, since_request, last_gap, obtained, remote, files, timed, slots, budget>>

\* The block the loop is at
Block(job) == job.blocks[job.i]

InLoop(j) ==
    /\ running = j
    /\ jobs[j].pc = "loop"
    /\ jobs[j].i <= Len(jobs[j].blocks)

\* History: the cache entry for the text of a block of index line, timestamp line
\* and text, if there is one
AtHand(block) ==
    LET lines == BlockLines(block)
    IN  IF Len(lines) >= 3 /\ CacheKey(Text(lines)) \in DOMAIN Cache
        THEN <<Cache[CacheKey(Text(lines))]>>
        ELSE <<>>

\* await progress_callback(i + 1, total_blocks) with the endpoint's callback:
\* the callback runs and returns None, awaiting None raises TypeError, and the
\* except branch of the loop keeps the original block
CallbackRaises(j) ==
    /\ InLoop(j)
    /\ jobs[j].cb = "sync"
    /\ jobs' = [jobs EXCEPT ![j] = Appended(@, Block(@), "except", AtHand(Block(@)))]
    /\ UNCHANGED <<config, model_name, cls_cache, inst_cache, cache_file, running,
                   since_request, last_gap, obtained, remote, files, timed, slots, budget>>

\* A faulty variant: a block of fewer than two lines ends the job
PassThroughAborting(j) ==
    /\ InLoop(j)
    /\ jobs[j].cb = "none"
    /\ Len(BlockLines(Block(jobs[j]))) < 2
    /\ jobs' = [jobs EXCEPT ![j].pc = "failed"]
    /\ running' = NoJob
    /\ UNCHANGED <<config, model_name, cls_cache, inst_cache, cache_file,
                   since_request, last_gap, obtained, remote, files, timed, slots, budget>>

\* if len(lines) < 2: translated_blocks.append(block); continue
PassThrough(j) ==
    /\ InLoop(j)
    /\ jobs[j].cb = "none"
    /\ Len(BlockLines(Block(jobs[j]))) < 2
    /\ jobs' = [jobs EXCEPT ![j] = Appended(@, Block(@), "malformed", <<>>)]
    /\ UNCHANGED <<config, model_name, cls_cache, inst_cache, cache_file, running,
                   since_request, last_gap, obtained, remote, files, timed, slots, budget>>

\* The job record at the call of _translate_with_retry(text)
Calling(job) ==
    LET lines == BlockLines(Block(job))
        key == CacheKey(Text(lines))
    IN  [job EXCEPT !.header = Header(lines),
                    !.text = Text(lines),
                    !.cache_key = <<key>>,
                    !.attempt = 0,
                    !.translated = <<>>,
                    !.issued = 0,
                    !.failures = "none",
                    !.later = IF key \in DOMAIN obtained THEN <<obtained[key]>> ELSE <<>>,
                    !.call = "active",
                    !.result = <<>>]

\* _translate_with_retry finds the key in the cache and returns the entry
CacheHit(j) ==
    /\ InLoop(j)
    /\ jobs[j].cb = "none"
    /\ Len(BlockLines(Block(jobs[j]))) >= 2
    /\ LET job == Calling(jobs[j])
           key == job.cache_key[1]
       IN  /\ key \in DOMAIN Cache
           /\ jobs' = [jobs EXCEPT ![j] = Returned(job, Cache[key], "cached")]
    /\ running' = NoJob
    /\ UNCHANGED <<config, model_name, cls_cache, inst_cache, cache_file,
                   since_request, last_gap, obtained, remote, files, timed, slots, budget>>

\* _translate_with_retry does not find the key: the first attempt
CacheMiss(j) ==
    /\ InLoop(j)
    /\ jobs[j].cb = "none"
    /\ Len(BlockLines(Block(jobs[j]))) >= 2
    /\ LET job == Calling(jobs[j])
       IN  /\ job.cache_key[1] \notin DOMAIN Cache
           /\ jobs' = [jobs EXCEPT ![j] = Attempt(job)]
    /\ running' = NoJob
    /\ NoteRequest
    /\ UNCHANGED <<config, model_name, cls_cache, inst_cache, cache_file,
                   obtained, remote, files, timed, slots, budget>>

\* A faulty variant: the file is written and the loop is not left
WriteOutputNoReturn(j) ==
    /\ running = j
    /\ jobs[j].pc = "loop"
    /\ jobs[j].i > Len(jobs[j].blocks)
    /\ jobs' = [jobs EXCEPT ![j] =
           [@ EXCEPT !.output = <<Join(jobs[j].translated_blocks, <<"\n", "\n">>)>>]]
    /\ UNCHANGED <<config, model_name, cls_cache, inst_cache, cache_file, running,
                   since_request, last_gap, obtained, remote, files, timed, slots, budget>>

\* After the loop: the file is written, the final progress update is made and
\* output_path is returned
WriteOutput(j) ==
    /\ running = j
    /\ jobs[j].pc = "loop"
    /\ jobs[j].i > Len(jobs[j].blocks)
    /\ jobs' = [jobs EXCEPT ![j] =
           [@ EXCEPT !.output = <<Join(jobs[j].translated_blocks, <<"\n", "\n">>)>>,
                     !.pc = "done"]]
    /\ running' = NoJob
    /\ UNCHANGED <<config, model_name, cls_cache, inst_cache, cache_file,
                   since_request, last_gap, obtained, remote, files, timed, slots, budget>>

----------------------------------------------------------------------------
(* _translate_with_retry *)

\* A faulty variant: the translation is kept in memory and not saved
StoreUnsaved(key, translated) ==
    LET d == DictPut(Cache, key, translated)
    IN  /\ IF inst_cache.set
           THEN /\ inst_cache' = [inst_cache EXCEPT !.d = d]
                /\ UNCHANGED cls_cache
           ELSE /\ cls_cache' = d
                /\ UNCHANGED inst_cache
        /\ UNCHANGED cache_file
        /\ obtained' = IF key \in DOMAIN obtained THEN obtained
                       ELSE DictPut(obtained, key, translated)

\* self._cache[cache_key] = translated; self._save_cache()
StoreTranslation(key, translated) ==
    LET d == DictPut(Cache, key, translated)
    IN  /\ IF inst_cache.set
           THEN /\ inst_cache' = [inst_cache EXCEPT !.d = d]
                /\ UNCHANGED cls_cache
           ELSE /\ cls_cache' = d
                /\ UNCHANGED inst_cache
        /\ cache_file' = [exists |-> TRUE, d |-> d]
        /\ obtained' = IF key \in DOMAIN obtained THEN obtained
                       ELSE DictPut(obtained, key, translated)

\* The remote call returns a text that is not empty: it is stripped, stored in
\* the cache, the cache is saved, and asyncio.sleep(1) is awaited
RemoteReturns(j, r) ==
    /\ running = NoJob
    /\ jobs[j].pc = "await_remote"
    /\ r \in ResponseTexts(jobs[j].prompt_language, jobs[j].text)
    /\ StoreTranslation(jobs[j].cache_key[1], Strip(r))
    /\ jobs' = [jobs EXCEPT ![j] =
           [@ EXCEPT !.translated = Strip(r), !.pc = "sleep_ok", !.wake = Wake(1)]]
    /\ UNCHANGED <<config, model_name, running, since_request, last_gap, remote, files,
                   timed, slots, budget>>

\* History: the failures of the attempts of one call so far: "safety" when one
\* was a safety block, else "rate" when one was a rate limit, else "plain"
Worst(failures, e) ==
    IF e.safety \/ failures = "safety" THEN "safety"
    ELSE IF e.rate \/ failures = "rate" THEN "rate"
    ELSE "plain"

\* The except branch of an attempt, for exception e; jitter is random.uniform(0, 1)
Handled(job, e, jitter) ==
    LET noted == [job EXCEPT !.failures = Worst(@, e)]
        sleeping == [noted EXCEPT !.last_exception = <<e>>,
                                  !.pc = "backoff",
                                  !.wake = Wake(Delay(job.attempt, jitter))]
    IN  IF e.rate THEN sleeping
        ELSE IF e.safety THEN Returned(noted, job.text, "blocked")
        ELSE sleeping

\* The remote call raises e, or returns an empty text: with a block reason
\* (ContentBlocked) or without (EmptyResponse)
RemoteFails(j, e, jitter) ==
    /\ running = NoJob
    /\ jobs[j].pc = "await_remote"
    /\ jobs' = [jobs EXCEPT ![j] = Handled(@, e, jitter)]
    /\ UNCHANGED <<config, model_name, cls_cache, inst_cache, cache_file, running,
                   since_request, last_gap, obtained, remote, files, timed, slots, budget>>

\* asyncio.sleep(1) after a stored translation is over: return translated
SleptAfterStore(j) ==
    /\ running = NoJob
    /\ jobs[j].pc = "sleep_ok"
    /\ jobs[j].wake = 0
    /\ jobs' = [jobs EXCEPT ![j] = Returned(@, @.translated, "translated")]
    /\ UNCHANGED <<config, model_name, cls_cache, inst_cache, cache_file, running,
                   since_request, last_gap, obtained, remote, files, timed, slots, budget>>

\* A faulty variant: one attempt more than max_retries
RetryOnceMore(j) ==
    /\ running = NoJob
    /\ jobs[j].pc = "backoff"
    /\ jobs[j].wake = 0
    /\ jobs[j].attempt < max_retries
    /\ jobs' = [jobs EXCEPT ![j] = Attempt([@ EXCEPT !.last_exception = <<>>])]
    /\ NoteRequest
    /\ UNCHANGED <<config, model_name, cls_cache, inst_cache, cache_file, running,
                   obtained, remote, files, timed, slots, budget>>

\* asyncio.sleep(delay) is over and attempts are left: the next attempt
Retry(j) ==
    /\ running = NoJob
    /\ jobs[j].pc = "backoff"
    /\ jobs[j].wake = 0
    /\ jobs[j].attempt + 1 < max_retries
    /\ jobs' = [jobs EXCEPT ![j] = Attempt([@ EXCEPT !.attempt = @ + 1, !.last_exception = <<>>])]
    /\ NoteRequest
    /\ UNCHANGED <<config, model_name, cls_cache, inst_cache, cache_file, running,
                   obtained, remote, files, timed, slots, budget>>

\* A faulty variant: nothing is returned when the attempts are used up
GiveUpEmpty(j) ==
    /\ running = NoJob
    /\ jobs[j].pc = "backoff"
    /\ jobs[j].wake = 0
    /\ jobs[j].attempt + 1 >= max_retries
    /\ jobs' = [jobs EXCEPT ![j] =
           Returned([@ EXCEPT !.attempt = @ + 1, !.last_exception = <<>>], <<>>,
                    IF @.failures = "safety" THEN "exhausted after a block" ELSE "exhausted")]
    /\ UNCHANGED <<config, model_name, cls_cache, inst_cache, cache_file, running,
                   since_request, last_gap, obtained, remote, files, timed, slots, budget>>

\* asyncio.sleep(delay) is over after the last attempt: "Return original text
\* if all retries fail"
GiveUp(j) ==
    /\ running = NoJob
    /\ jobs[j].pc = "backoff"
    /\ jobs[j].wake = 0
    /\ jobs[j].attempt + 1 >= max_retries
    /\ jobs' = [jobs EXCEPT ![j] =
           Returned([@ EXCEPT !.attempt = @ + 1, !.last_exception = <<>>], @.text,
                    IF @.failures = "safety" THEN "exhausted after a block" ELSE "exhausted")]
    /\ UNCHANGED <<config, model_name, cls_cache, inst_cache, cache_file, running,
                   since_request, last_gap, obtained, remote, files, timed, slots, budget>>

\* asyncio.sleep(1) at the end of the loop body is over: the next block
NextBlock(j) ==
    /\ running = NoJob
    /\ jobs[j].pc = "sleep_block"
    /\ jobs[j].wake = 0
    /\ jobs' = [jobs EXCEPT ![j] = [@ EXCEPT !.i = @ + 1, !.pc = "loop"]]
    /\ running' = j
    /\ UNCHANGED <<config, model_name, cls_cache, inst_cache, cache_file,
                   since_request, last_gap, obtained, remote, files, timed, slots, budget>>

----------------------------------------------------------------------------
(* Translator._initialize *)

\* self.generation_config, as _initialize sets it
DefaultGeneration ==
    [temperature |-> "0.2", top_p |-> "0.8", top_k |-> "40", max_output_tokens |-> "4000"]

\* The translator before Translator(config) is called; env_key tells whether
\* the environment has GEMINI_API_KEY.  calls, passed and last_error are
\* history: the remote calls _initialize made, the model whose connection test
\* passed, and the last failure of a connection test; returned, whether a
\* later call of Translator(config) found the instance and returned it
NoTranslator ==
    [constructed |-> FALSE, initialized |-> FALSE, env_key |-> FALSE,
     generation_config |-> <<>>, model |-> <<>>, calls |-> <<>>, passed |-> <<>>,
     last_error |-> <<>>, raised |-> <<>>, returned |-> FALSE]

\* The translator of a server that started: the model of the configuration
\* passed the connection test
ServingTranslator ==
    [NoTranslator EXCEPT !.constructed = TRUE, !.initialized = TRUE, !.env_key = TRUE,
                         !.generation_config = DefaultGeneration,
                         !.model = <<"gemini-2.5-flash">>,
                         !.passed = <<"gemini-2.5-flash">>,
                         !.calls = <<"configure", "list_models",
                                     <<"generate_content", "gemini-2.5-flash">> >>]

BaseNames == {"gemini-2.5-flash", "gemini-1.5-flash", "gemini-1.5-pro"}

\* f"models/{name}"
Prefixed(name) == "models/" \o name

\* m.replace('models/', '')
Unprefixed(m) ==
    IF m \in BaseNames THEN m ELSE CHOOSE name \in BaseNames : m = Prefixed(name)

\* config.get(key, default)
ConfigGet(cfg, key, default) == IF key \in DOMAIN cfg THEN cfg[key] ELSE default

\* A faulty variant: the key is not looked for
ApiKeyAssumed(cfg) == TRUE

\* os.getenv("GEMINI_API_KEY") or config.get("api_key") or config.get("gemini_api_key"),
\* as a truth value
ApiKey(cfg) ==
    \/ translator.env_key
    \/ ConfigGet(cfg, "api_key", "") # ""
    \/ ConfigGet(cfg, "gemini_api_key", "") # ""

\* models_to_try, before it is filtered
Candidates(name) ==
    <<name, Prefixed(name), "gemini-1.5-flash", "models/gemini-1.5-flash",
      "gemini-1.5-pro", "models/gemini-1.5-pro">>

\* [m for m in models_to_try
\*  if m in available_models or m.replace('models/', '') in available_models]
RECURSIVE OnlyAvailable(_, _)
OnlyAvailable(models, available_models) ==
    IF models = <<>> THEN <<>>
    ELSE (IF Head(models) \in available_models
             \/ Unprefixed(Head(models)) \in available_models
          THEN <<Head(models)>> ELSE <<>>)
         \o OnlyAvailable(Tail(models), available_models)

\* [m for m in models_to_try if not (m in seen or seen.add(m))]
RECURSIVE Unique(_, _)
Unique(models, seen) ==
    IF models = <<>> THEN <<>>
    ELSE IF Head(models) \in seen THEN Unique(Tail(models), seen)
    ELSE <<Head(models)>> \o Unique(Tail(models), seen \cup {Head(models)})

ModelsToTry(name, available_models) ==
    Unique(IF available_models # {}
           THEN OnlyAvailable(Candidates(name), available_models)
           ELSE Candidates(name), {})

\* The remote side at the time of one _initialize: what list_models returns
\* (no set: it raises) and what the connection test of each model comes to: a
\* text, an empty text, or an error whose message has "quota" in it, or
\* "not found"
Worlds ==
    [listed : {<<>>, <<{"gemini-2.0-flash"}>>, <<{"models/gemini-1.5-flash"}>>,
               <<{"gemini-2.5-flash", "models/gemini-1.5-pro"}>>},
     test : [BaseNames \cup {Prefixed(name) : name \in BaseNames}
                -> {"ok", "empty", "quota", "not found"}]]

\* for model_name in models_to_try: ... with its break, continue and else.
\* t is the translator so far; working is the model that passed, if one did
RECURSIVE TryModels(_, _, _)
TryModels(models, test, t) ==
    IF models = <<>> THEN [translator |-> t, working |-> <<>>, ended |-> "else"]
    ELSE LET m == Head(models)
             tested == [t EXCEPT !.model = <<m>>,
                                 !.calls = Append(@, <<"generate_content", m>>)]
             failed == [tested EXCEPT !.last_error = <<test[m]>>]
         IN  IF test[m] = "ok"
             THEN [translator |-> [tested EXCEPT !.passed = <<m>>],
                   working |-> <<m>>, ended |-> "break"]
             ELSE IF test[m] = "quota"
             THEN [translator |-> failed, working |-> <<>>, ended |-> "break"]
             ELSE TryModels(Tail(models), test, failed)

\* RuntimeError(f"Failed to initialize translator: {e}"), with the guidance
\* about the quota when str(e) has "quota" in it
FailedToInitialize(last_error) ==
    <<[type |-> "RuntimeError", guidance |-> last_error = <<"quota">>]>>

\* The body of _initialize, from self.config = config on
Construct(cfg, world) ==
    LET begun == [translator EXCEPT !.constructed = TRUE,
                                    !.generation_config = DefaultGeneration,
                                    !.passed = <<>>,
                                    !.last_error = <<>>,
                                    !.raised = <<>>]
        named == ConfigGet(cfg, "model", "gemini-1.5-flash")
        available_models == IF world.listed = <<>> THEN {} ELSE world.listed[1]
        models_to_try == ModelsToTry(named, available_models)
        configured == [begun EXCEPT !.calls = @ \o <<"configure", "list_models">>]
        loop == TryModels(models_to_try, world.test, configured)
    IN  /\ inst_cache' = IF cache_file.exists
                         THEN [set |-> TRUE, d |-> cache_file.d]
                         ELSE inst_cache
        /\ IF ~ApiKey(cfg)
           THEN /\ translator' =
                       [begun EXCEPT !.raised = <<[type |-> "ValueError", guidance |-> FALSE]>>]
                /\ UNCHANGED model_name
           ELSE IF models_to_try = <<>>
           THEN /\ translator' = [configured EXCEPT !.raised = FailedToInitialize(<<>>)]
                /\ model_name' = named
           ELSE IF loop.ended = "break"
           THEN /\ translator' = [loop.translator EXCEPT !.initialized = TRUE]
                /\ model_name' = IF loop.working # <<>> THEN loop.working[1] ELSE named
           ELSE /\ translator' =
                       [loop.translator EXCEPT
                           !.raised = FailedToInitialize(loop.translator.last_error)]
                /\ model_name' = named

\* _initialize(config): "if self._initialized: return"
Initialize(cfg) ==
    IF translator.initialized
    THEN UNCHANGED <<translator, model_name, inst_cache>>
    ELSE \E world \in Worlds : Construct(cfg, world)

\* translator = Translator(config_manager.config), when the server starts
NewTranslator ==
    /\ ~translator.constructed
    /\ Initialize(config)
    /\ UNCHANGED <<config, cls_cache, cache_file, jobs, running, since_request, last_gap,
                   obtained, remote, files, timed, slots, budget>>

\* Translator(config) once more: cls._instance is not None, and __new__
\* returns it as it is, without a call of _initialize
SameTranslator ==
    /\ translator.constructed
    /\ ~translator.returned
    /\ translator' = [translator EXCEPT !.returned = TRUE]
    /\ UNCHANGED <<config, model_name, cls_cache, inst_cache, cache_file, jobs, running,
                   since_request, last_gap, obtained, remote, files, timed, slots, budget>>

----------------------------------------------------------------------------
(* The endpoints that change what the translator reads *)

NewConfigs ==
    {[language |-> l] : l \in Languages} \cup {[language_code |-> c] : c \in Codes}

\* POST /config/: config_manager.update(new_config), save_config(), and
\* translator._initialize(config)
update_config(new_config) ==
    /\ running = NoJob
    /\ budget.configs > 0
    /\ budget' = [budget EXCEPT !.configs = @ - 1]
    /\ config' = DictUpdate(config, new_config)
    /\ Initialize(config')
    /\ UNCHANGED <<cls_cache, cache_file, jobs, running,
                   since_request, last_gap, obtained, remote, files, timed, slots>>

\* POST /clear_cache: Translator.clear_cache() rebinds the class attribute and
\* unlinks the file
clear_cache ==
    /\ running = NoJob
    /\ budget.clears > 0
    /\ budget' = [budget EXCEPT !.clears = @ - 1]
    /\ cls_cache' = EmptyDict
    /\ cache_file' = [exists |-> FALSE, d |-> EmptyDict]
    /\ obtained' = EmptyDict
    /\ jobs' = [j \in Jobs |-> [jobs[j] EXCEPT !.later = <<>>]]
    /\ UNCHANGED <<config, model_name, inst_cache, running, since_request, last_gap,
                   remote, files, timed, slots>>

\* A second passes: the sleeps have a second less left
Tick ==
    /\ timed
    /\ running = NoJob
    /\ \/ \E j \in Jobs : jobs[j].wake > 0
       \/ since_request # <<>> /\ since_request # <<min_request_interval>>
    /\ jobs' = [j \in Jobs |-> [jobs[j] EXCEPT !.wake = IF @ > 0 THEN @ - 1 ELSE 0]]
    /\ since_request' =
           IF since_request = <<>> \/ since_request = <<min_request_interval>>
           THEN since_request
           ELSE <<since_request[1] + 1>>
    /\ UNCHANGED <<config, model_name, cls_cache, inst_cache, cache_file,
                   running, last_gap, obtained, remote, files, timed, slots, budget>>

----------------------------------------------------------------------------
(* Files *)

\* One block: index line, timestamp line, one text line
FileOne == <<"1", "\n", "t", "\n", "a">>

\* Two blocks with the same text, and a final newline
FileTwo == FileOne \o <<"\n", "\n", "2", "\n", "t", "\n", "a", "\n">>

\* A block of one line, then a block with Windows line endings, a text line that
\* starts with a space and a line of white space between its two text lines
FileOdd ==
    <<"x", "\n", "\n", "1", "\r", "\n", "t", "\r", "\n", " ", "a", "\n", " ", "\n", "b">>

\* An index line and a timestamp line without text
FileBare == <<"1", "\n", "t">>

SomeFiles == {FileOne, FileTwo, FileOdd, FileBare}

\* Well-formed blocks: an index line, a timestamp line, one or two text lines,
\* some of which start or end with a space
WellBlocks ==
    { <<"1", "\n", "t", "\n", "a">>,
      <<"2", "\n", "t", "\n", " ", "a">>,
      <<"3", "\n", "t", "\n", "b", " ", "\n", " ", "a", " ">> }

\* The sequences of at most n well-formed blocks
RECURSIVE BlockSeqs(_)
BlockSeqs(n) ==
    IF n = 0 THEN {<<>>}
    ELSE LET shorter == BlockSeqs(n - 1)
         IN  shorter \cup {Append(q, b) : q \in shorter, b \in WellBlocks}

\* s with Windows line endings
RECURSIVE ToCRLF(_)
ToCRLF(s) ==
    IF s = <<>> THEN <<>>
    ELSE (IF Head(s) = "\n" THEN <<"\r", "\n">> ELSE <<Head(s)>>) \o ToCRLF(Tail(s))

\* Well-formed files: blocks separated by one blank line, with Unix or Windows
\* line endings, with or without a final newline
WellFiles ==
    { LET body == Join(q, <<"\n", "\n">>) \o (IF final THEN <<"\n">> ELSE <<>>)
      IN  IF crlf THEN ToCRLF(body) ELSE body :
      q \in BlockSeqs(MaxBlocks) \ {<<>>}, crlf \in BOOLEAN, final \in BOOLEAN }

Files ==
    IF files = "some" THEN SomeFiles
    ELSE IF files = "two" THEN {FileTwo}
    ELSE WellFiles \cup {FileOdd}

----------------------------------------------------------------------------
(* find_video_matches (backend/file_utils.py).  A path is a file name, a
   sequence of characters; "A" is the one upper-case letter *)

\* The position of the last "." of name, 0 when it has none
RECURSIVE LastDot(_)
LastDot(name) ==
    IF name = <<>> THEN 0
    ELSE IF name[Len(name)] = "." THEN Len(name)
    ELSE LastDot(SubSeq(name, 1, Len(name) - 1))

\* Path(f).stem: the name without its last suffix; a leading or a trailing dot
\* starts no suffix
Stem(path) ==
    LET dot == LastDot(path)
    IN  IF 1 < dot /\ dot < Len(path) THEN SubSeq(path, 1, dot - 1) ELSE path

\* str.lower()
Lower(s) == [c \in 1..Len(s) |-> IF s[c] = "A" THEN "a" ELSE s[c]]

\* len(os.path.commonprefix([a, b]))
RECURSIVE CommonPrefixLen(_, _)
CommonPrefixLen(a, b) ==
    IF a = <<>> \/ b = <<>> \/ Head(a) # Head(b) THEN 0
    ELSE 1 + CommonPrefixLen(Tail(a), Tail(b))

\* A dict that keeps insertion order: a sequence of [key, value] records.
\* d[k] = v: the value of an existing key is replaced where the key stands
RECURSIVE OrderedPut(_, _, _)
OrderedPut(d, k, v) ==
    IF d = <<>> THEN <<[key |-> k, value |-> v]>>
    ELSE IF Head(d).key = k THEN <<[key |-> k, value |-> v]>> \o Tail(d)
    ELSE <<Head(d)>> \o OrderedPut(Tail(d), k, v)

\* d.pop(k)
RECURSIVE OrderedPop(_, _)
OrderedPop(d, k) ==
    IF d = <<>> THEN <<>>
    ELSE IF Head(d).key = k THEN Tail(d)
    ELSE <<Head(d)>> \o OrderedPop(Tail(d), k)

\* k in d
HasKey(d, k) == \E n \in 1..Len(d) : d[n].key = k

\* d[k]
ValueOf(d, k) == d[CHOOSE n \in 1..Len(d) : d[n].key = k].value

\* video_stems = {v.stem.lower(): v for v in video_files}
RECURSIVE VideoStems(_)
VideoStems(video_files) ==
    IF video_files = <<>> THEN <<>>
    ELSE LET v == video_files[Len(video_files)]
         IN  OrderedPut(VideoStems(SubSeq(video_files, 1, Len(video_files) - 1)),
                        Lower(Stem(v)), v)

\* The fuzzy loop over video_stems.items() from entry n on, with the best video
\* (a sequence of none or one path) and the highest score so far
RECURSIVE BestFrom(_, _, _, _, _)
BestFrom(video_stems, n, subtitle_stem, best_match_video, highest_score) ==
    IF n > Len(video_stems) THEN [video |-> best_match_video, score |-> highest_score]
    ELSE LET score == CommonPrefixLen(subtitle_stem, video_stems[n].key)
         IN  IF score > highest_score
             THEN BestFrom(video_stems, n + 1, subtitle_stem, <<video_stems[n].value>>, score)
             ELSE BestFrom(video_stems, n + 1, subtitle_stem, best_match_video, highest_score)

\* A faulty variant: 0.7 is enough
ConfidentFromSeven(highest_score, subtitle_stem) == 10 * highest_score >= 7 * Len(subtitle_stem)

\* highest_score / len(subtitle_stem) > 0.7, in tenths
Confident(highest_score, subtitle_stem) == 10 * highest_score > 7 * Len(subtitle_stem)

IdleMatcher ==
    [pc |-> "idle", subtitle_files |-> <<>>, video_files |-> <<>>, video_stems |-> <<>>,
     k |-> 1, matches |-> <<>>]

\* The call: the arguments and the dict of the videos
find_video_matches(subtitle_files, video_files) ==
    /\ matcher.pc = "idle"
    /\ matcher' = [IdleMatcher EXCEPT !.pc = "loop",
                                     !.subtitle_files = subtitle_files,
                                     !.video_files = video_files,
                                     !.video_stems = VideoStems(video_files)]

\* What one turn of the loop over the subtitles makes of the matcher
Matched(m) ==
    LET subtitle_file == m.subtitle_files[m.k]
        subtitle_stem == Lower(Stem(subtitle_file))
        best == BestFrom(m.video_stems, 1, subtitle_stem, <<>>, 0)
        matched_video ==
            IF HasKey(m.video_stems, subtitle_stem)
            THEN <<ValueOf(m.video_stems, subtitle_stem)>>
            ELSE IF best.video # <<>> /\ Confident(best.score, subtitle_stem)
                 THEN best.video
                 ELSE <<>>
    IN  [m EXCEPT !.video_stems = IF matched_video = <<>> THEN @
                                  ELSE OrderedPop(@, Lower(Stem(matched_video[1]))),
                  !.matches = Append(@, [subtitle |-> <<subtitle_file>>,
                                         video |-> matched_video,
                                         status |-> IF matched_video = <<>>
                                                    THEN "No match" ELSE "Matched"]),
                  !.k = @ + 1]

\* One turn of the loop over the subtitles
MatchSubtitle ==
    /\ matcher.pc = "loop"
    /\ matcher.k <= Len(matcher.subtitle_files)
    /\ matcher' = Matched(matcher)

\* The entries of the videos left in the dict
Remaining(video_stems) ==
    [n \in 1..Len(video_stems) |->
        [subtitle |-> <<>>, video |-> <<video_stems[n].value>>, status |-> "No subtitles"]]

\* After the loop: the videos left are added and matches is returned
ReturnMatches ==
    /\ matcher.pc = "loop"
    /\ matcher.k > Len(matcher.subtitle_files)
    /\ matcher' = [matcher EXCEPT !.matches = @ \o Remaining(matcher.video_stems),
                                  !.pc = "done"]

\* File names
Srt == <<".", "s", "r", "t">>
Mp4 == <<".", "m", "p", "4">>
Mkv == <<".", "m", "k", "v">>
Abc == <<"a", "b", "c">>
LongStem == <<"a", "b", "c", "d", "e", "f", "g">>

SubtitleNames ==
    { Abc \o Srt,
      <<"A", "b", "c">> \o Srt,
      Abc \o <<"d">> \o Srt,
      LongStem \o <<"h", "i", "j">> \o Srt }

VideoNames ==
    { Abc \o Mp4,
      Abc \o Mkv,
      Abc \o <<"e">> \o Mp4,
      LongStem \o <<"x", "y", "z">> \o Mp4 }

\* The sequences of at most n elements of S
RECURSIVE SeqsUpTo(_, _)
SeqsUpTo(S, n) ==
    IF n = 0 THEN {<<>>}
    ELSE LET shorter == SeqsUpTo(S, n - 1)
         IN  shorter \cup {Append(q, x) : q \in shorter, x \in S}

----------------------------------------------------------------------------
(* LogBroadcaster (main.py).  The functions take and give the broadcaster's
   state; published, replayed, since, until, taken and missed are history *)

Queues == {1, 2}        \* the queues subscribe may create

\* What JsonFormatter.format makes of a record that is no progress update
LogEntry(level, message) == [type |-> "log", level |-> level, message |-> message]

NoQueue ==
    [made |-> FALSE, items |-> <<>>, taken |-> <<>>, replayed |-> <<>>, since |-> 0,
     until |-> <<>>, missed |-> FALSE]

NewBroadcaster ==
    [history |-> <<>>, clients |-> <<>>, queues |-> [q \in Queues |-> NoQueue],
     published |-> <<>>]

\* Whether q is in self.clients
Registered(b, q) == \E n \in 1..Len(b.clients) : b.clients[n] = q

\* A faulty variant: a deque without maxlen
DequeAppendUnbounded(history, log_entry) == Append(history, log_entry)

\* deque.append with maxlen: the oldest entry leaves when the deque is full
DequeAppend(history, log_entry) ==
    IF Len(history) < history_maxlen THEN Append(history, log_entry)
    ELSE Append(Tail(history), log_entry)

\* q.put_nowait(log_entry) under try / except asyncio.QueueFull: pass
PutNowait(queue, log_entry) ==
    IF Len(queue.items) < queue_maxsize
    THEN [queue EXCEPT !.items = Append(@, log_entry)]
    ELSE [queue EXCEPT !.missed = TRUE]

\* A faulty variant: QueueFull is not caught, the loop ends at the first full queue
AddLogUntilFull(b, log_entry) ==
    LET full(n) == Len(b.queues[b.clients[n]].items) >= queue_maxsize
        reached(q) == \E n \in 1..Len(b.clients) :
                          b.clients[n] = q /\ \A o \in 1..n : ~full(o)
    IN  [b EXCEPT !.history = DequeAppend(@, log_entry),
                  !.queues = [q \in Queues |->
                                 IF reached(q) THEN PutNowait(@[q], log_entry) ELSE @[q]],
                  !.published = Append(@, log_entry)]

\* LogBroadcaster.add_log
AddLog(b, log_entry) ==
    [b EXCEPT !.history = DequeAppend(@, log_entry),
              !.queues = [q \in Queues |->
                             IF Registered(b, q) THEN PutNowait(@[q], log_entry) ELSE @[q]],
              !.published = Append(@, log_entry)]

\* A faulty variant: the history is not replayed
SubscribeWithoutReplay(b, q) ==
    [b EXCEPT !.queues[q] = [NoQueue EXCEPT !.made = TRUE,
                                            !.since = Len(b.published)],
              !.clients = Append(@, q)]

\* LogBroadcaster.subscribe, q being the queue it creates: the history is put
\* into it (it fits: the deque is shorter than the queue) and q is registered
Subscribe(b, q) ==
    [b EXCEPT !.queues[q] = [NoQueue EXCEPT !.made = TRUE,
                                            !.items = b.history,
                                            !.replayed = b.history,
                                            !.since = Len(b.published)],
              !.clients = Append(@, q)]

\* list.remove(q): the first occurrence leaves
RECURSIVE Remove(_, _)
Remove(clients, q) ==
    IF clients = <<>> THEN <<>>
    ELSE IF Head(clients) = q THEN Tail(clients)
    ELSE <<Head(clients)>> \o Remove(Tail(clients), q)

\* A faulty variant: every client is removed
UnsubscribeAll(b, q) ==
    IF Registered(b, q)
    THEN [b EXCEPT !.clients = <<>>,
                   !.queues[q].until = <<Len(b.published)>>]
    ELSE b

\* LogBroadcaster.unsubscribe: ValueError of list.remove is passed over
Unsubscribe(b, q) ==
    IF Registered(b, q)
    THEN [b EXCEPT !.clients = Remove(@, q),
                   !.queues[q].until = <<Len(b.published)>>]
    ELSE b

\* log = await q.get() in event_generator of stream_logs
Get(b, q) ==
    [b EXCEPT !.queues[q].items = Tail(@), !.queues[q].taken = Append(@, Head(b.queues[q].items))]

\* A record is logged anywhere in the application: AppLogHandler.emit
add_log(log_entry) ==
    /\ Len(broadcaster.published) < MaxLogs
    /\ broadcaster' = AddLog(broadcaster, log_entry)

\* GET /logs/stream/: event_generator subscribes
subscribe(q) ==
    /\ ~broadcaster.queues[q].made
    /\ \A other \in Queues : other < q => broadcaster.queues[other].made
    /\ broadcaster' = Subscribe(broadcaster, q)

\* The stream is cancelled (its queue is registered), or unsubscribe is called
\* with a queue the broadcaster does not hold
unsubscribe(q) ==
    /\ broadcaster' = Unsubscribe(broadcaster, q)

\* event_generator takes the next entry of its queue
get(q) ==
    /\ Registered(broadcaster, q)
    /\ broadcaster.queues[q].items # <<>>
    /\ broadcaster' = Get(broadcaster, q)

----------------------------------------------------------------------------
(* POST /translate/ (main.py, translate_files_endpoint).  An entry of
   selected_files is <<>> when it has no subtitle path, else <<f>>; a result
   names the file it is about *)

NoRequest ==
    [pc |-> "idle", selected_files |-> <<>>, i |-> 1, translated_results |-> <<>>,
     language_code |-> "", job |-> NoJob]

\* progress_data of the endpoint, when it starts on a file
StartEvent(i, num_files, f) ==
    [type |-> "progress", current |-> i, total |-> num_files, filename |-> f]

\* progress_data of progress_callback(current_chunk, total_chunks)
ChunkEvent(i, num_files, f, current_chunk, total_chunks) ==
    [type |-> "translation_progress", current_file |-> i, total_files |-> num_files,
     filename |-> f, current_chunk |-> current_chunk, total_chunks |-> total_chunks]

\* The request arrives: the overrides, if any, are written to the
\* configuration, and language_code is read for the whole request
translate_files_endpoint(selected_files, update_params) ==
    /\ request.pc = "idle"
    /\ running = NoJob
    /\ config' = DictUpdate(config, update_params)
    /\ request' = [NoRequest EXCEPT !.pc = "loop",
                                    !.selected_files = selected_files,
                                    !.language_code = config'["language_code"]]
    /\ broadcaster' =
           AddLog(IF DOMAIN update_params # {}
                  THEN AddLog(broadcaster, LogEntry("info", "configuration updated"))
                  ELSE broadcaster,
                  LogEntry("info", "received translation request"))
    /\ IF DOMAIN update_params # {}
       THEN Initialize(config')
       ELSE UNCHANGED <<translator, model_name, inst_cache>>
    /\ UNCHANGED <<cls_cache, cache_file, jobs, running,
                   since_request, last_gap, obtained, remote, files, timed, slots, budget,
                   matcher>>

InRequest ==
    /\ request.pc = "loop"
    /\ request.job = NoJob
    /\ request.i <= Len(request.selected_files)

\* if not subtitle_path_str: continue
EndpointSkip ==
    /\ InRequest
    /\ request.selected_files[request.i] = <<>>
    /\ request' = [request EXCEPT !.i = @ + 1]
    /\ UNCHANGED <<config, model_name, cls_cache, inst_cache, cache_file, jobs, running,
                   since_request, last_gap, obtained, remote, files, timed, slots, budget,
                   matcher, broadcaster, translator>>

\* The endpoint logs that it starts on the file and calls translate_subtitle
\* with its progress_callback; a file that cannot be read is logged there
EndpointCall(j) ==
    /\ InRequest
    /\ request.selected_files[request.i] # <<>>
    /\ LET f == request.selected_files[request.i][1]
           started == AddLog(broadcaster,
                             StartEvent(request.i, Len(request.selected_files), f))
       IN  /\ translate_subtitle(j, f, "sync")
           /\ broadcaster' = IF f = Missing
                             THEN AddLog(started, LogEntry("error", "error in translate_subtitle"))
                             ELSE started
    /\ request' = [request EXCEPT !.job = j]
    /\ UNCHANGED <<matcher, translator>>

\* One turn of translate_subtitle's loop in the endpoint's job: the callback
\* logs its event, awaiting what it returned raises, the error is logged
EndpointBlock(j) ==
    /\ request.job = j
    /\ CallbackRaises(j)
    /\ broadcaster' =
           AddLog(AddLog(broadcaster,
                         ChunkEvent(request.i, Len(request.selected_files), jobs[j].subtitle,
                                    jobs[j].i, Len(jobs[j].blocks))),
                  LogEntry("error", "error translating block"))
    /\ UNCHANGED <<matcher, request, translator>>

\* translate_subtitle writes the file and makes the final progress update
EndpointWrite(j) ==
    /\ request.job = j
    /\ WriteOutput(j)
    /\ broadcaster' =
           AddLog(broadcaster,
                  ChunkEvent(request.i, Len(request.selected_files), jobs[j].subtitle,
                             Len(jobs[j].blocks), Len(jobs[j].blocks)))
    /\ UNCHANGED <<matcher, request, translator>>

\* The path translate_subtitle returns for f
OutputPath(f, language_code) == [stem |-> f, language_code |-> language_code]

\* A faulty variant: the first failure ends the request
EndpointCollectAborting(j) ==
    /\ request.pc = "loop"
    /\ request.job = j
    /\ j # NoJob
    /\ jobs[j].pc \in {"done", "failed"}
    /\ LET f == request.selected_files[request.i][1]
       IN  IF jobs[j].pc = "done"
           THEN /\ request' = [request EXCEPT
                       !.translated_results =
                           Append(@, [original_subtitle |-> f, status |-> "Success",
                                      translated_subtitle |->
                                          OutputPath(f, request.language_code)]),
                       !.i = @ + 1,
                       !.job = NoJob]
                /\ broadcaster' = AddLog(broadcaster, LogEntry("info", "successfully translated"))
           ELSE /\ request' = [request EXCEPT
                       !.translated_results =
                           Append(@, [original_subtitle |-> f, status |-> "Failed",
                                      error |-> "no such file"]),
                       !.i = Len(request.selected_files) + 1,
                       !.job = NoJob]
                /\ broadcaster' = AddLog(broadcaster, LogEntry("error", "translation failed"))
    /\ UNCHANGED <<config, model_name, cls_cache, inst_cache, cache_file, jobs, running,
                   since_request, last_gap, obtained, remote, files, timed, slots, budget,
                   matcher, translator>>

\* translate_subtitle returned a path, or raised: the result of the file is
\* appended and the loop goes on
EndpointCollect(j) ==
    /\ request.pc = "loop"
    /\ request.job = j
    /\ j # NoJob
    /\ jobs[j].pc \in {"done", "failed"}
    /\ LET f == request.selected_files[request.i][1]
       IN  IF jobs[j].pc = "done"
           THEN /\ request' = [request EXCEPT
                       !.translated_results =
                           Append(@, [original_subtitle |-> f, status |-> "Success",
                                      translated_subtitle |->
                                          OutputPath(f, request.language_code)]),
                       !.i = @ + 1,
                       !.job = NoJob]
                /\ broadcaster' = AddLog(broadcaster, LogEntry("info", "successfully translated"))
           ELSE /\ request' = [request EXCEPT
                       !.translated_results =
                           Append(@, [original_subtitle |-> f, status |-> "Failed",
                                      error |-> "no such file"]),
                       !.i = @ + 1,
                       !.job = NoJob]
                /\ broadcaster' = AddLog(broadcaster, LogEntry("error", "translation failed"))
    /\ UNCHANGED <<config, model_name, cls_cache, inst_cache, cache_file, jobs, running,
                   since_request, last_gap, obtained, remote, files, timed, slots, budget,
                   matcher, translator>>

\* return JSONResponse(content=translated_results)
EndpointReturn ==
    /\ request.pc = "loop"
    /\ request.job = NoJob
    /\ request.i > Len(request.selected_files)
    /\ request' = [request EXCEPT !.pc = "done"]
    /\ broadcaster' = AddLog(broadcaster, LogEntry("info", "batch translation completed"))
    /\ UNCHANGED <<config, model_name, cls_cache, inst_cache, cache_file, jobs, running,
                   since_request, last_gap, obtained, remote, files, timed, slots, budget,
                   matcher, translator>>

----------------------------------------------------------------------------
(* The state after construction (main.py, lines 111-112) *)

\* .translation_cache.json as an earlier run left it: one translation
EarlierKey ==
    [text |-> <<"a">>, model |-> "gemini-2.5-flash", language |-> "French",
     language_code |-> "fr"]

InitTranslator(earlier) ==
    /\ config = [language |-> "French", language_code |-> "fr"]
    /\ model_name = "gemini-2.5-flash"
    /\ cls_cache = EmptyDict
    /\ \/ \* _load_cache: the file does not exist
          /\ cache_file = [exists |-> FALSE, d |-> EmptyDict]
          /\ inst_cache = [set |-> FALSE, d |-> EmptyDict]
       \/ \* _load_cache: self._cache = json.load(f)
          /\ cache_file = [exists |-> TRUE, d |-> DictPut(EmptyDict, EarlierKey, earlier)]
          /\ inst_cache = [set |-> TRUE, d |-> DictPut(EmptyDict, EarlierKey, earlier)]
    /\ jobs = [j \in Jobs |-> IdleJob]
    /\ running = NoJob
    /\ since_request = <<>>
    /\ last_gap = <<>>
    /\ obtained = EmptyDict
    /\ matcher = IdleMatcher
    /\ broadcaster = NewBroadcaster
    /\ request = NoRequest
    /\ translator = ServingTranslator

Init ==
    /\ InitTranslator(Translation("French", <<"a">>, 1))
    /\ remote = "translate"
    /\ files = "some"
    /\ timed = FALSE
    /\ slots = {1}
    /\ budget = [configs |-> MaxConfigUpdates, clears |-> MaxClears]

\* The steps of a call of _translate_with_retry after its first attempt was
\* issued: the remote call returns or fails, a sleep ends
CallStep(j) ==
    \/ \E r \in ResponseTexts(jobs[j].prompt_language, jobs[j].text) : RemoteReturns(j, r)
    \/ \E e \in Errors \cup {ContentBlocked, EmptyResponse}, jitter \in {0, 1} :
           RemoteFails(j, e, jitter)
    \/ SleptAfterStore(j)
    \/ Retry(j)
    \/ GiveUp(j)

JobStep(j) ==
    \/ \E f \in Files \cup {Missing}, cb \in {"none", "sync"} : translate_subtitle(j, f, cb)
    \/ CallbackRaises(j)
    \/ PassThrough(j)
    \/ CacheHit(j)
    \/ CacheMiss(j)
    \/ WriteOutput(j)
    \/ CallStep(j)
    \/ NextBlock(j)

\* The specifications of the translator leave the log, the matcher and the
\* endpoint's request out
Next ==
    /\ \/ /\ \E j \in Jobs : JobStep(j)
          /\ UNCHANGED translator
       \/ \E new_config \in NewConfigs : update_config(new_config)
       \/ /\ clear_cache
          /\ UNCHANGED translator
    /\ UNCHANGED <<matcher, broadcaster, request>>

Spec == Init /\ [][Next]_vars

\* Every remote call returns or fails, every sleep ends, and the event loop
\* resumes the coroutine that waited for it
Fairness ==
    \A j \in Jobs : WF_vars(CallStep(j) /\ UNCHANGED <<matcher, broadcaster, request, translator>>)

SpecFair == Spec /\ Fairness

\* The steps translate_subtitle takes once it was called
Resume(j) ==
    \/ CallbackRaises(j)
    \/ PassThrough(j)
    \/ CacheHit(j)
    \/ CacheMiss(j)
    \/ WriteOutput(j)
    \/ CallStep(j)
    \/ NextBlock(j)

\* The event loop runs every coroutine that can go on
Liveness ==
    \A j \in Jobs : WF_vars(Resume(j) /\ UNCHANGED <<matcher, broadcaster, request, translator>>)

\* One invocation, and nothing else going on
InitLive ==
    /\ InitTranslator(Translation("French", <<"a">>, 1))
    /\ remote = "translate"
    /\ files = "some"
    /\ timed = FALSE
    /\ slots = {1}
    /\ budget = [configs |-> 0, clears |-> 0]

NextLive ==
    /\ \E j \in Jobs : JobStep(j)
    /\ UNCHANGED <<matcher, broadcaster, request, translator>>

SpecLive == InitLive /\ [][NextLive]_vars /\ Liveness

----------------------------------------------------------------------------
(* Two concurrent invocations on the same file; the remote translates or
   returns an empty text *)

InitPair ==
    /\ InitTranslator(Translation("French", <<"a">>, 1))
    /\ remote = "translate"
    /\ files = "two"
    /\ timed = FALSE
    /\ slots = {1, 2}
    /\ budget = [configs |-> 0, clears |-> 0]

JobStepPair(j) ==
    \/ \E f \in Files : translate_subtitle(j, f, "none")
    \/ CacheHit(j)
    \/ CacheMiss(j)
    \/ WriteOutput(j)
    \/ \E r \in ResponseTexts(jobs[j].prompt_language, jobs[j].text) : RemoteReturns(j, r)
    \/ RemoteFails(j, EmptyResponse, 0)
    \/ SleptAfterStore(j)
    \/ Retry(j)
    \/ GiveUp(j)
    \/ NextBlock(j)

NextPair ==
    /\ \E j \in Jobs : JobStepPair(j)
    /\ UNCHANGED <<matcher, broadcaster, request, translator>>

SpecPair == InitPair /\ [][NextPair]_vars

----------------------------------------------------------------------------
(* One invocation on well-formed files; the remote returns each text unchanged *)

InitEcho ==
    /\ InitTranslator(<<"a">>)
    /\ remote = "echo"
    /\ files = "well"
    /\ timed = FALSE
    /\ slots = {1}
    /\ budget = [configs |-> 0, clears |-> 0]

NextEcho ==
    /\ \E j \in Jobs : JobStep(j)
    /\ UNCHANGED <<matcher, broadcaster, request, translator>>

SpecEcho == InitEcho /\ [][NextEcho]_vars

----------------------------------------------------------------------------
(* One invocation, with the clock *)

InitClock ==
    /\ InitTranslator(Translation("French", <<"a">>, 1))
    /\ remote = "translate"
    /\ files = "some"
    /\ timed = TRUE
    /\ slots = {1}
    /\ budget = [configs |-> 0, clears |-> 0]

NextClock ==
    /\ (\E j \in Jobs : JobStep(j)) \/ Tick
    /\ UNCHANGED <<matcher, broadcaster, request, translator>>

SpecClock == InitClock /\ [][NextClock]_vars

----------------------------------------------------------------------------
(* The server starts: Translator(config_manager.config) *)

\* What config.json may hold at the start: a key or none, under either name,
\* and a model or none
StartConfigs ==
    {[language |-> "French", language_code |-> "fr", gemini_api_key |-> ""],
     [language |-> "French", language_code |-> "fr", gemini_api_key |-> "",
      model |-> "gemini-2.5-flash"],
     [language |-> "French", language_code |-> "fr", gemini_api_key |-> "k",
      model |-> "gemini-2.5-flash"],
     [language |-> "French", language_code |-> "fr", gemini_api_key |-> "",
      api_key |-> "k", model |-> "gemini-1.5-pro"]}

InitStart ==
    /\ config \in StartConfigs
    /\ \E env_key \in BOOLEAN : translator = [NoTranslator EXCEPT !.env_key = env_key]
    /\ model_name = ""
    /\ cls_cache = EmptyDict
    /\ inst_cache = [set |-> FALSE, d |-> EmptyDict]
    /\ cache_file \in {[exists |-> FALSE, d |-> EmptyDict],
                       [exists |-> TRUE,
                        d |-> DictPut(EmptyDict, EarlierKey, Translation("French", <<"a">>, 1))]}
    /\ jobs = [j \in Jobs |-> IdleJob]
    /\ running = NoJob
    /\ since_request = <<>>
    /\ last_gap = <<>>
    /\ obtained = EmptyDict
    /\ remote = "translate"
    /\ files = "some"
    /\ timed = FALSE
    /\ slots = {1}
    /\ budget = [configs |-> 0, clears |-> 0]
    /\ matcher = IdleMatcher
    /\ broadcaster = NewBroadcaster
    /\ request = NoRequest

NextStart ==
    /\ \/ NewTranslator
       \/ SameTranslator
    /\ UNCHANGED <<matcher, broadcaster, request>>

SpecInit == InitStart /\ [][NextStart]_vars

----------------------------------------------------------------------------
(* find_video_matches alone *)

translator_vars ==
    <<config, model_name, cls_cache, inst_cache, cache_file, jobs, running,
      since_request, last_gap, obtained, remote, files, timed, slots, budget, translator>>

\* No translation job starts
InitAside ==
    /\ InitTranslator(Translation("French", <<"a">>, 1))
    /\ remote = "translate"
    /\ files = "some"
    /\ timed = FALSE
    /\ slots = {}
    /\ budget = [configs |-> 0, clears |-> 0]

NextMatch ==
    /\ \/ /\ matcher.pc = "idle"
          /\ \E subtitle_files \in SeqsUpTo(SubtitleNames, MaxFiles),
                video_files \in SeqsUpTo(VideoNames, MaxFiles) :
                  find_video_matches(subtitle_files, video_files)
       \/ MatchSubtitle
       \/ ReturnMatches
    /\ UNCHANGED <<translator_vars, broadcaster, request>>

SpecMatch == InitAside /\ [][NextMatch]_vars

----------------------------------------------------------------------------
(* The LogBroadcaster alone: records are logged, streams come, read and go *)

LogEntries == {LogEntry("info", "x"), LogEntry("info", "y")}

NextLog ==
    /\ \/ \E log_entry \in LogEntries : add_log(log_entry)
       \/ \E q \in Queues : subscribe(q)
       \/ \E q \in Queues : unsubscribe(q)
       \/ \E q \in Queues : get(q)
    /\ UNCHANGED <<translator_vars, matcher, request>>

SpecLog == InitAside /\ [][NextLog]_vars

----------------------------------------------------------------------------
(* One POST /translate/ request *)

InitEndpoint ==
    /\ InitTranslator(Translation("French", <<"a">>, 1))
    /\ remote = "translate"
    /\ files = "some"
    /\ timed = FALSE
    /\ slots = Jobs
    /\ budget = [configs |-> 0, clears |-> 0]

\* An entry of selected_files: with no subtitle, or with the path of a file or
\* of no file
Entries == {<<>>} \cup {<<f>> : f \in SomeFiles \cup {Missing}}

\* The requests: at most MaxEntries entries, as many subtitles as there are jobs
Requests ==
    {r \in SeqsUpTo(Entries, MaxEntries) :
        Cardinality({n \in 1..Len(r) : r[n] # <<>>}) <= Cardinality(Jobs)}

\* The overrides a request may carry: none, or some that the translator reads
\* when it is initialized only
Overrides == {EmptyDict, [temperature |-> "0.5"]}

NextEndpoint ==
    \/ /\ request.pc = "idle"
       /\ \E selected_files \in Requests, update_params \in Overrides :
              translate_files_endpoint(selected_files, update_params)
    \/ EndpointSkip
    \/ \E j \in Jobs : EndpointCall(j)
    \/ \E j \in Jobs : EndpointBlock(j)
    \/ \E j \in Jobs : EndpointWrite(j)
    \/ \E j \in Jobs : EndpointCollect(j)
    \/ EndpointReturn

SpecEndpoint == InitEndpoint /\ [][NextEndpoint]_vars

----------------------------------------------------------------------------
(* Reading a file as a person would: lines, and groups of lines between blank
   lines *)

\* s without one final newline
WithoutFinalNewline(s) ==
    IF s # <<>> /\ s[Len(s)] = "\n" THEN SubSeq(s, 1, Len(s) - 1) ELSE s

\* The lines of a file, line endings normalized
FileLines(f) == Split(WithoutFinalNewline(ReadText(f)), <<"\n">>)

\* A well-formed SRT file: groups of an index line, a timestamp line and one or
\* more text lines, none of them blank, with one empty line between groups
WellFormed(f) ==
    LET groups == Split(FileLines(f), << <<>> >>)
    IN  \A g \in 1..Len(groups) :
            /\ Len(groups[g]) >= 3
            /\ \A l \in 1..Len(groups[g]) : NonBlank(groups[g][l])

Finished(j) == jobs[j].pc = "done"

\* The first lines (at most two: index and timestamp) of a block
HeadLines(block) ==
    LET lines == BlockLines(block)
    IN  SubSeq(lines, 1, IF Len(lines) < 2 THEN Len(lines) ELSE 2)

----------------------------------------------------------------------------
(* C1 *)

\* C1: in a job started by /translate/ (its callback is the plain function of
\* translate_files_endpoint), every block of index line, timestamp line and text
\* for which a translation was at hand (returned by the remote call, or in the
\* cache) is written to the output file as its two header lines followed by
\* that translation.
C1_EndpointJobTranslates ==
    \A j \in Jobs :
        (Finished(j) /\ jobs[j].cb = "sync") =>
            /\ jobs[j].output = <<Join(jobs[j].translated_blocks, <<"\n", "\n">>)>>
            /\ \A i \in 1..Len(jobs[j].blocks) :
                   jobs[j].available[i] # <<>> =>
                       jobs[j].translated_blocks[i] =
                           Rebuild(Header(BlockLines(jobs[j].blocks[i])), jobs[j].available[i][1])

----------------------------------------------------------------------------
(* C2 *)

\* C2: the output file of a finished job is the blocks kept for the input
\* blocks, joined by an empty line: one per block of the input and in the order
\* of the input (the i-th starts with the index and timestamp lines of the i-th
\* input block), whatever happened to each block.
C2_OneBlockPerInputBlock ==
    \A j \in Jobs :
        Finished(j) =>
            /\ jobs[j].output = <<Join(jobs[j].translated_blocks, <<"\n", "\n">>)>>
            /\ Len(jobs[j].translated_blocks) = Len(jobs[j].blocks)
            /\ \A i \in 1..Len(jobs[j].blocks) :
                   HeadLines(jobs[j].translated_blocks[i]) = HeadLines(jobs[j].blocks[i])

\* A finished job of two blocks that were dealt with in two different ways
C2_Witness ==
    \E j \in Jobs :
        /\ Finished(j)
        /\ Len(jobs[j].outcomes) = 2
        /\ jobs[j].outcomes[1] # jobs[j].outcomes[2]
        /\ "translated" \in {jobs[j].outcomes[1], jobs[j].outcomes[2]}

----------------------------------------------------------------------------
(* C3 *)

\* C3 as stated: when the remote call returns each text unchanged, the output
\* written for a well-formed SRT file is the file itself with its line endings
\* normalized (up to one final newline).
C3_RoundTripExact ==
    \A j \in Jobs :
        (Finished(j) /\ WellFormed(jobs[j].subtitle)) =>
            WithoutFinalNewline(jobs[j].output[1]) = WithoutFinalNewline(ReadText(jobs[j].subtitle))

\* C3, amended: when the remote call returns each text unchanged, the output
\* written for a well-formed SRT file has the lines of the file, in the same
\* order and with the same empty lines between blocks, each line equal to the
\* input line up to the whitespace at its two ends.
C3_RoundTrip ==
    \A j \in Jobs :
        (Finished(j) /\ WellFormed(jobs[j].subtitle)) =>
            StripAll(Split(WithoutFinalNewline(jobs[j].output[1]), <<"\n">>))
                = StripAll(FileLines(jobs[j].subtitle))

\* A finished job on a well-formed file of two blocks with CRLF line endings,
\* one text served by the remote call and one from the cache
C3_Witness ==
    \E j \in Jobs :
        /\ Finished(j)
        /\ WellFormed(jobs[j].subtitle)
        /\ \E c \in 1..Len(jobs[j].subtitle) : jobs[j].subtitle[c] = "\r"
        /\ Len(jobs[j].blocks) = 2
        /\ "translated" \in {jobs[j].outcomes[1], jobs[j].outcomes[2]}

----------------------------------------------------------------------------
(* C4 *)

\* C4: a call of _translate_with_retry that starts after a translation of its
\* text was obtained from the remote API under its key, with no clear_cache since,
\* issues no remote call and returns that same translation.
C4_CacheIdempotent ==
    \A j \in Jobs :
        jobs[j].later # <<>> =>
            /\ jobs[j].issued = 0
            /\ jobs[j].call = "returned" => jobs[j].result = jobs[j].later

----------------------------------------------------------------------------
(* C5 *)

\* C5: every cache entry holds a translation of the text of its key into the
\* language of its key.
C5_EntryMatchesKey ==
    \A k \in DOMAIN Cache : Cache[k] \in Translations(k.language, k.text)

----------------------------------------------------------------------------
(* C6 *)

\* The blocks of finished jobs all of whose attempts failed, none of them with a
\* safety block
Exhausted(j, i) ==
    /\ Finished(j)
    /\ i \in 1..Len(jobs[j].outcomes)
    /\ jobs[j].outcomes[i] = "exhausted"

----------------------------------------------------------------------------
(* C7 *)

\* C7: when all max_retries attempts of a call fail with errors that are neither
\* rate limits nor safety blocks, the call ends by raising: it returns no value.
C7_LastExceptionRaised ==
    \A j \in Jobs :
        (jobs[j].attempt = max_retries /\ jobs[j].failures = "plain") =>
            /\ jobs[j].call = "raised"
            /\ jobs[j].result = <<>>

----------------------------------------------------------------------------
(* C8 *)

\* C8: once a remote call of a call of _translate_with_retry has failed with a
\* safety block, whatever else the message says, the call has returned the
\* original text: it is not sleeping a backoff delay nor issuing a remote call.
C8_SafetyShortCircuit ==
    \A j \in Jobs :
        jobs[j].failures = "safety" =>
            /\ jobs[j].call = "returned"
            /\ jobs[j].result = <<jobs[j].text>>

----------------------------------------------------------------------------
(* C9 *)

\* C9: a call of _translate_with_retry issues at most max_retries remote calls
\* and, when every remote call returns or fails and every sleep ends, it
\* returns.
C9_BoundedRetries ==
    /\ [](\A j \in Jobs : jobs[j].issued <= max_retries)
    /\ \A j \in Jobs : (jobs[j].call = "active") ~> (jobs[j].call = "returned")

\* A call that issued max_retries remote calls and has returned
C9_Witness ==
    \E j \in Jobs :
        /\ jobs[j].issued = max_retries
        /\ jobs[j].call = "returned"

----------------------------------------------------------------------------
(* C10 *)

\* C10: a remote call starts at least min_request_interval seconds after the
\* remote call before it.
C10_MinInterval ==
    last_gap # <<>> => last_gap[1] >= min_request_interval

----------------------------------------------------------------------------
(* C11 *)

\* C11: once clear_cache has run, the cache in memory and the cache file, when
\* there is one, hold only entries obtained from the remote API since the last
\* clear: nothing from before it is served or written back.
C11_ClearedForGood ==
    budget.clears < MaxClears =>
        /\ DOMAIN Cache \subseteq DOMAIN obtained
        /\ cache_file.exists => DOMAIN cache_file.d \subseteq DOMAIN obtained

----------------------------------------------------------------------------
(* C12 *)

\* The cache file holds translated under key and equals the cache in memory
Persisted(key, translated) ==
    /\ cache_file.exists
    /\ cache_file.d = Cache
    /\ key \in DOMAIN cache_file.d
    /\ cache_file.d[key] = translated

\* C12 as stated: at the step in which _translate_with_retry returns a
\* translation it obtained from the remote API, the cache file holds its key
\* with that translation and equals the cache in memory.
C12_PersistedAtReturn ==
    [][\A j \in Jobs :
          (jobs[j].pc = "sleep_ok" /\ jobs'[j].pc = "sleep_block") =>
              Persisted(jobs[j].cache_key[1], jobs[j].translated)']_vars

\* C12, amended: at the step in which _translate_with_retry stores a
\* translation it obtained from the remote API, before the sleep that precedes
\* its return, the cache file holds its key with that translation and equals
\* the cache in memory.
C12_PersistedAtStore ==
    [][\A j \in Jobs :
          (jobs[j].pc = "await_remote" /\ jobs'[j].pc = "sleep_ok") =>
              Persisted(jobs[j].cache_key[1], jobs[j].translated)']_vars

\* A translation was stored after the cache had been cleared, and the call has
\* not returned yet
C12_Witness ==
    \E j \in Jobs :
        /\ jobs[j].pc = "sleep_ok"
        /\ budget.clears < MaxClears
        /\ Persisted(jobs[j].cache_key[1], jobs[j].translated)

----------------------------------------------------------------------------
(* C13 *)

\* C13: in what find_video_matches returns, every subtitle whose lower-cased
\* stem is the lower-cased stem of some video given, and that is the first
\* subtitle with that stem, is matched to a video with that stem.
C13_ExactMatchWins ==
    matcher.pc = "done" =>
        \A n \in 1..Len(matcher.subtitle_files) :
            LET stem == Lower(Stem(matcher.subtitle_files[n]))
            IN  ( /\ \E v \in 1..Len(matcher.video_files) :
                         Lower(Stem(matcher.video_files[v])) = stem
                  /\ \A o \in 1..(n - 1) : Lower(Stem(matcher.subtitle_files[o])) # stem )
                => /\ matcher.matches[n].video # <<>>
                   /\ Lower(Stem(matcher.matches[n].video[1])) = stem

----------------------------------------------------------------------------
(* C14 *)

\* C14: a turn of the loop for a subtitle whose stem is no key of the videos
\* left matches it to the video left whose stem shares the longest prefix with
\* the subtitle's stem, the first of them in the order of the dict, when that
\* prefix is more than 0.7 of the subtitle's stem; else the subtitle gets
\* 'No match' and no video.
C14_FuzzyThreshold ==
    [][(matcher.pc = "loop" /\ matcher'.k = matcher.k + 1) =>
          LET pool == matcher.video_stems
              stem == Lower(Stem(matcher.subtitle_files[matcher.k]))
              entry == matcher'.matches[matcher.k]
              Shared(n) == CommonPrefixLen(stem, pool[n].key)
              IsBest(n) == /\ \A o \in 1..Len(pool) : Shared(o) <= Shared(n)
                           /\ \A o \in 1..(n - 1) : Shared(o) < Shared(n)
          IN  ~HasKey(pool, stem) =>
                  IF \E n \in 1..Len(pool) : IsBest(n) /\ 10 * Shared(n) > 7 * Len(stem)
                  THEN /\ entry.status = "Matched"
                       /\ \E n \in 1..Len(pool) : IsBest(n) /\ entry.video = <<pool[n].value>>
                  ELSE /\ entry.status = "No match"
                       /\ entry.video = <<>>]_vars

\* A call with two videos that matched one subtitle by prefix and left another
\* one, which shares a prefix with a video, without match
C14_Witness ==
    /\ matcher.pc = "done"
    /\ Len(matcher.video_files) = 2
    /\ \E n, m \in 1..Len(matcher.subtitle_files) :
           /\ matcher.matches[n].status = "Matched"
           /\ Lower(Stem(matcher.matches[n].video[1])) # Lower(Stem(matcher.subtitle_files[n]))
           /\ matcher.matches[m].status = "No match"

----------------------------------------------------------------------------
(* C15 *)

\* C15: what find_video_matches returns has one entry per subtitle, in the
\* order given, then entries without subtitle, and every video given is the
\* video of exactly one entry.
C15_EveryVideoOnce ==
    matcher.pc = "done" =>
        /\ Len(matcher.matches) >= Len(matcher.subtitle_files)
        /\ \A n \in 1..Len(matcher.matches) :
               IF n <= Len(matcher.subtitle_files)
               THEN matcher.matches[n].subtitle = <<matcher.subtitle_files[n]>>
               ELSE matcher.matches[n].subtitle = <<>> /\ matcher.matches[n].status = "No subtitles"
        /\ \A v \in 1..Len(matcher.video_files) :
               Cardinality({n \in 1..Len(matcher.matches) :
                               matcher.matches[n].video = <<matcher.video_files[v]>>}) = 1

----------------------------------------------------------------------------
(* C16, C17, C18: the LogBroadcaster *)

\* The last n entries of s
LastN(s, n) == IF Len(s) <= n THEN s ELSE SubSeq(s, Len(s) - n + 1, Len(s))

\* All that was ever put into queue q, in the order it was put
Delivered(q) == broadcaster.queues[q].taken \o broadcaster.queues[q].items

\* C16: a step that publishes a log entry appends it to the history (which
\* keeps the last history_maxlen entries), puts it at the end of every
\* registered queue that has room, and leaves every other queue as it was: a
\* full queue changes nothing for the others.
C16_BestEffort ==
    [][Len(broadcaster'.published) = Len(broadcaster.published) + 1 =>
          LET log_entry == broadcaster'.published[Len(broadcaster'.published)]
          IN  /\ broadcaster'.history = LastN(broadcaster'.published, history_maxlen)
              /\ broadcaster'.clients = broadcaster.clients
              /\ \A q \in Queues :
                     broadcaster'.queues[q].items =
                         IF /\ Registered(broadcaster, q)
                            /\ Len(broadcaster.queues[q].items) < queue_maxsize
                         THEN Append(broadcaster.queues[q].items, log_entry)
                         ELSE broadcaster.queues[q].items]_vars

\* An entry was dropped for one subscriber and the last entry published is in
\* the queue of another one
C16_Witness ==
    \E q, other \in Queues :
        /\ broadcaster.queues[q].missed
        /\ Registered(broadcaster, other)
        /\ ~broadcaster.queues[other].missed
        /\ broadcaster.queues[other].since < Len(broadcaster.published)
        /\ broadcaster.queues[other].items # <<>>
        /\ broadcaster.queues[other].items[Len(broadcaster.queues[other].items)]
               = broadcaster.published[Len(broadcaster.published)]

\* C17: a registered subscriber whose queue was never full has been given the
\* last history_maxlen entries published before it subscribed, then every entry
\* published since, in the order of publication.
C17_ReplayThenLive ==
    \A q \in Queues :
        ( /\ Registered(broadcaster, q)
          /\ ~broadcaster.queues[q].missed )
        => Delivered(q) =
               LastN(SubSeq(broadcaster.published, 1, broadcaster.queues[q].since),
                     history_maxlen)
               \o SubSeq(broadcaster.published, broadcaster.queues[q].since + 1,
                         Len(broadcaster.published))

\* A subscriber that came when more than history_maxlen entries had been
\* published, got an entry since and has read one
C17_Witness ==
    \E q \in Queues :
        /\ Registered(broadcaster, q)
        /\ ~broadcaster.queues[q].missed
        /\ broadcaster.queues[q].since > history_maxlen
        /\ broadcaster.queues[q].since < Len(broadcaster.published)
        /\ broadcaster.queues[q].taken # <<>>

\* C18: the step that unsubscribes q leaves the history, the other queues and
\* their registration as they were; no step puts anything into a queue that is
\* not registered; and unsubscribe of a queue that is not registered changes
\* nothing.
C18_Unsubscribed ==
    /\ [](\A q \in Queues :
             ~Registered(broadcaster, q) => Unsubscribe(broadcaster, q) = broadcaster)
    /\ [][\A q \in Queues :
             /\ (Registered(broadcaster, q) /\ ~Registered(broadcaster', q)) =>
                    /\ broadcaster'.history = broadcaster.history
                    /\ broadcaster'.published = broadcaster.published
                    /\ broadcaster'.queues[q].items = broadcaster.queues[q].items
                    /\ \A other \in Queues \ {q} :
                           /\ broadcaster'.queues[other] = broadcaster.queues[other]
                           /\ Registered(broadcaster', other) = Registered(broadcaster, other)
             /\ ( /\ broadcaster.queues[q].made
                  /\ ~Registered(broadcaster, q) ) =>
                    /\ ~Registered(broadcaster', q)
                    /\ broadcaster'.queues[q].items = broadcaster.queues[q].items]_vars

\* A queue was unsubscribed, an entry was published after that and reached
\* another subscriber
C18_Witness ==
    \E q, other \in Queues :
        /\ broadcaster.queues[q].until # <<>>
        /\ broadcaster.queues[q].until[1] < Len(broadcaster.published)
        /\ broadcaster.queues[q].items # <<>>
        /\ Registered(broadcaster, other)
        /\ broadcaster.queues[other].since <= broadcaster.queues[q].until[1]
        /\ Len(Delivered(other)) > Len(Delivered(q))

----------------------------------------------------------------------------
(* C19, C20: POST /translate/ *)

\* The subtitle paths of the entries that have one, in the order of the entries
SubtitlesOf(selected_files) ==
    LET some == SelectSeq(selected_files, LAMBDA file_pair : file_pair # <<>>)
    IN  [n \in 1..Len(some) |-> some[n][1]]

\* C19: the results hold one result for every entry with a subtitle path the
\* loop has passed, in the order of the request, each either Success with the
\* path of the translated file or Failed with an error message (Failed for the
\* file that cannot be read, Success for the others); when the endpoint
\* returns, the loop has passed every entry.
C19_OneResultPerSubtitle ==
    request.pc # "idle" =>
        LET passed == SubtitlesOf(SubSeq(request.selected_files, 1, request.i - 1))
            results == request.translated_results
        IN  /\ request.pc = "done" => request.i = Len(request.selected_files) + 1
            /\ Len(results) = Len(passed)
            /\ \A n \in 1..Len(results) :
                   /\ results[n].original_subtitle = passed[n]
                   /\ IF passed[n] = Missing
                      THEN /\ results[n].status = "Failed"
                           /\ DOMAIN results[n] = {"original_subtitle", "status", "error"}
                      ELSE /\ results[n].status = "Success"
                           /\ DOMAIN results[n] =
                                  {"original_subtitle", "status", "translated_subtitle"}
                           /\ results[n].translated_subtitle =
                                  OutputPath(passed[n], request.language_code)

\* The endpoint has returned, and a file that failed is followed by one that
\* was translated
C19_Witness ==
    /\ request.pc = "done"
    /\ \E n \in 1..(Len(request.translated_results) - 1) :
           /\ request.translated_results[n].status = "Failed"
           /\ request.translated_results[n + 1].status = "Success"

\* C20: when a step publishes a translation_progress event with current_chunk
\* = k for the file the endpoint is on, at least k blocks of that file have
\* been appended to translated_blocks in the state the step starts from.
C20_ProgressAfterCompletion ==
    [][\A n \in (Len(broadcaster.published) + 1)..Len(broadcaster'.published) :
           broadcaster'.published[n].type = "translation_progress" =>
               /\ request.job # NoJob
               /\ broadcaster'.published[n].current_chunk
                      <= Len(jobs[request.job].translated_blocks)]_vars

----------------------------------------------------------------------------
(* C21 *)

\* The translation_progress events published for the file the endpoint is on
ChunkEvents ==
    SelectSeq(broadcaster.published,
              LAMBDA e : e.type = "translation_progress" /\ e.current_file = request.i)

\* C21: when translate_subtitle has returned for a file of N blocks, the
\* progress events published for that file are N events, the n-th of them with
\* current_chunk = n and total_chunks = N.
C21_OneEventPerBlock ==
    \A j \in Jobs :
        (request.job = j /\ jobs[j].pc = "done") =>
            /\ Len(ChunkEvents) = Len(jobs[j].blocks)
            /\ \A n \in 1..Len(ChunkEvents) :
                   /\ ChunkEvents[n].current_chunk = n
                   /\ ChunkEvents[n].total_chunks = Len(jobs[j].blocks)

----------------------------------------------------------------------------
(* C22 *)

\* C22: all remote calls of one job ask for the same target language: once a
\* job has built a prompt, every prompt it builds later, for the same block or
\* a later one, names the language of that first prompt.
C22_ConfigFixedForJob ==
    [][\A j \in Jobs :
           ( /\ jobs[j].pc \notin {"idle", "done", "failed"}
             /\ jobs[j].prompt_language # "" )
           => jobs'[j].prompt_language = jobs[j].prompt_language]_vars

----------------------------------------------------------------------------
(* C23 *)

\* C23: no two jobs wait for a remote call for the same cache key at the same
\* time, and a translation is stored only under a key the cache does not hold.
C23_SingleFlight ==
    /\ [](\A j, k \in Jobs :
             ( /\ j # k
               /\ jobs[j].pc = "await_remote"
               /\ jobs[k].pc = "await_remote" )
             => jobs[j].cache_key # jobs[k].cache_key)
    /\ [][\A j \in Jobs :
             (jobs[j].pc = "await_remote" /\ jobs'[j].pc = "sleep_ok")
             => jobs[j].cache_key[1] \notin DOMAIN Cache]_vars

----------------------------------------------------------------------------
(* C24 *)

Terminal(j) == jobs[j].pc \in {"done", "failed"}

\* C24: every job that was started ends as done or as failed.  A job that is
\* done has dealt with all its blocks and has written its output, the blocks it
\* kept joined; a failed job has written nothing.  The output is written once,
\* when the last block has been dealt with, and a job that has ended keeps its
\* state, its blocks and its output.
C24_Terminates ==
    /\ \A j \in Jobs : (jobs[j].pc # "idle") ~> Terminal(j)
    /\ [](\A j \in Jobs :
             /\ jobs[j].pc = "done" =>
                    /\ Len(jobs[j].translated_blocks) = Len(jobs[j].blocks)
                    /\ jobs[j].output = <<Join(jobs[j].translated_blocks, <<"\n", "\n">>)>>
             /\ jobs[j].pc = "failed" => jobs[j].output = <<>>)
    /\ [][\A j \in Jobs :
             /\ jobs'[j].output # jobs[j].output =>
                    /\ jobs[j].output = <<>>
                    /\ jobs'[j].pc = "done"
                    /\ jobs[j].i = Len(jobs[j].blocks) + 1
             /\ Terminal(j) =>
                    /\ jobs'[j].pc = jobs[j].pc
                    /\ jobs'[j].i = jobs[j].i
                    /\ jobs'[j].translated_blocks = jobs[j].translated_blocks
                    /\ jobs'[j].output = jobs[j].output]_vars

\* A job is done whose first block was given up after the last attempt and
\* whose second block was translated
C24_Witness ==
    \E j \in Jobs :
        /\ jobs[j].pc = "done"
        /\ jobs[j].outcomes = <<"exhausted", "translated">>

\* C25: when neither GEMINI_API_KEY nor api_key nor gemini_api_key of the
\* configuration holds a key, constructing the translator raises a ValueError
\* and has made no remote call (no configure, no list_models, no connection
\* test of any model); no model was built and the translator is not initialized
C25_NoKeyFailsAtOnce ==
    ( /\ translator.constructed
      /\ ~translator.env_key
      /\ ConfigGet(config, "api_key", "") = ""
      /\ ConfigGet(config, "gemini_api_key", "") = "" )
    => /\ translator.raised = <<[type |-> "ValueError", guidance |-> FALSE]>>
       /\ translator.calls = <<>>
       /\ translator.model = <<>>
       /\ ~translator.initialized

\* The translator was constructed where no key was to be found, with a model
\* named in the configuration, and it raised
C25_Witness ==
    /\ translator.constructed
    /\ ~translator.env_key
    /\ ConfigGet(config, "api_key", "") = ""
    /\ ConfigGet(config, "gemini_api_key", "") = ""
    /\ "model" \in DOMAIN config
    /\ translator.raised # <<>>

\* C30: a constructed translator is initialized only if the connection test
\* of some model passed; and when a connection test failed with a quota error
\* no further model was tried, the translator is not initialized, and
\* _initialize raised the RuntimeError that carries the guidance about the quota
C30_QuotaFailsInitialization ==
    translator.constructed =>
        /\ translator.initialized => translator.passed # <<>>
        /\ translator.last_error = <<"quota">> =>
               /\ translator.calls[Len(translator.calls)] =
                      <<"generate_content", translator.model[1]>>
               /\ ~translator.initialized
               /\ translator.raised = FailedToInitialize(<<"quota">>)

\* C29: whatever POST /config/ and the overrides of POST /translate/ wrote to
\* the configuration, the translator works with it: its model is the model of
\* the configuration, and its temperature, top_p and top_k are those of the
\* configuration, for each of them the configuration holds
C29_TranslatorFollowsConfig ==
    translator.initialized =>
        /\ "model" \in DOMAIN config => model_name = config["model"]
        /\ \A k \in {"temperature", "top_p", "top_k"} :
               k \in DOMAIN config => translator.generation_config[k] = config[k]

\* C28: a job that is done, whose N blocks were all translated by the remote
\* (no block malformed, none served from a cache) and none of whose remote
\* calls failed (each call of _translate_with_retry issued one), has issued one
\* remote call per batch of batch_size blocks: the integer part of
\* (N + batch_size - 1) / batch_size calls in all
C28_OneCallPerBatch ==
    \A j \in Jobs :
        LET job == jobs[j]
            N == Len(job.blocks)
            batch_size == ConfigGet(config, "batch_size", 50)
        IN  ( /\ job.pc = "done"
              /\ Len(job.outcomes) = N
              /\ \A n \in 1..N : job.outcomes[n] = "translated"
              /\ \A n \in 1..Len(job.attempts) : job.attempts[n] = 1 )
            => Len(job.attempts) = (N + batch_size - 1) \div batch_size

\* C26: a block of fewer than two non-blank lines is dealt with in one step
\* that appends the block as it is at its own position, issues no remote call
\* and leaves the job in its loop, at the next block; and in the file a job
\* that is done has written, every such block stands unchanged at its position
\* among as many blocks as the file had
C26_MalformedKept ==
    /\ [][\A j \in Jobs :
            ( /\ jobs[j].pc = "loop"
              /\ jobs[j].i <= Len(jobs[j].blocks)
              /\ Len(BlockLines(Block(jobs[j]))) < 2
              /\ jobs'[j] # jobs[j] )
            => /\ jobs'[j].translated_blocks =
                      Append(jobs[j].translated_blocks, Block(jobs[j]))
               /\ jobs'[j].pc = "loop"
               /\ jobs'[j].i = jobs[j].i + 1
               /\ jobs'[j].issued = jobs[j].issued
               /\ jobs'[j].attempts = jobs[j].attempts]_vars
    /\ [](\A j \in Jobs :
            jobs[j].pc = "done" =>
                /\ Len(jobs[j].translated_blocks) = Len(jobs[j].blocks)
                /\ jobs[j].output = <<Join(jobs[j].translated_blocks, <<"\n", "\n">>)>>
                /\ \A n \in 1..Len(jobs[j].blocks) :
                       Len(BlockLines(jobs[j].blocks[n])) < 2
                       => jobs[j].translated_blocks[n] = jobs[j].blocks[n])

\* A job is done whose first block had one line and was passed through, and
\* whose second block was translated by the remote
C26_Witness ==
    \E j \in Jobs :
        /\ jobs[j].pc = "done"
        /\ Len(BlockLines(jobs[j].blocks[1])) < 2
        /\ jobs[j].outcomes = <<"malformed", "translated">>
        /\ jobs[j].attempts = <<1>>

\* The attempt numbers the formula of the delay is evaluated for, beyond those
\* a call makes
MaxAttempt == 5

\* C27: the sleep that follows failed attempt number a lasts
\* min(base_delay * 2^a + jitter, 60) seconds for a jitter of 0 to 1: it is never
\* longer than 60 seconds and never shorter than a sleep that followed attempt
\* a - 1; and the delay computed for any attempt number is capped at 60 and
\* does not decrease from one attempt to the next
C27_Backoff ==
    /\ [][\A j \in Jobs :
            (jobs[j].pc = "await_remote" /\ jobs'[j].pc = "backoff")
            => LET a == jobs[j].attempt
                   slept == jobs'[j].wake
               IN  /\ \E jitter \in 0..1 :
                          slept = IF base_delay * (2 ^ a) + jitter < 60
                                  THEN base_delay * (2 ^ a) + jitter ELSE 60
                   /\ slept <= 60
                   /\ a > 0 => slept >= base_delay * (2 ^ (a - 1)) + 1]_vars
    /\ [](\A a \in 0..MaxAttempt : \A jitter, other \in 0..1 :
            /\ Delay(a, jitter) <= 60
            /\ Delay(a, jitter) <= Delay(a + 1, other)
            /\ base_delay * (2 ^ a) + jitter >= 60 => Delay(a, jitter) = 60)

\* A call sleeps after its third failed attempt, for 21 seconds
C27_Witness ==
    \E j \in Jobs :
        /\ timed
        /\ jobs[j].pc = "backoff"
        /\ jobs[j].attempt = 2
        /\ jobs[j].wake = 21

\* C31: an instance that a call of Translator(config) returned is initialized
\* and has a model, be it the call that made the instance (which returned it
\* if _initialize raised nothing) or a later call (which finds the instance of
\* the class): after a construction that failed, no call returns the instance
\* that was left uninitialized
C31_ReturnedInitialized ==
    ( /\ translator.constructed
      /\ translator.raised = <<>> \/ translator.returned )
    => /\ translator.initialized
       /\ translator.model # <<>>

\* C32: no entry of the cache is an empty text, and a step that creates an
\* entry or changes one is the return of a remote call of some job, for the key
\* of that call, and stores the text that call returned, which is not empty:
\* no original text put in the place of a translation, after a safety block or
\* when the attempts are used up, is stored
C32_OnlyTranslationsCached ==
    /\ [](\A key \in DOMAIN Cache : Cache[key] # <<>>)
    /\ [][\A key \in DOMAIN Cache' :
            (key \notin DOMAIN Cache \/ Cache'[key] # Cache[key])
            => \E j \in Jobs :
                   /\ jobs[j].pc = "await_remote"
                   /\ jobs'[j].pc = "sleep_ok"
                   /\ key = jobs[j].cache_key[1]
                   /\ Cache'[key] = jobs'[j].translated
                   /\ Cache'[key] # <<>>]_vars

\* C33: in every state the history holds no more than history_maxlen entries,
\* which are the last ones published, in the order of publication; every queue
\* holds no more than queue_maxsize entries; the history fits into a queue made
\* now, so that a subscribe would put all of it without QueueFull; and every
\* queue made was given the whole history of the moment it was made
C33_BroadcasterBounds ==
    /\ Len(broadcaster.history) <= history_maxlen
    /\ broadcaster.history = LastN(broadcaster.published, history_maxlen)
    /\ Len(broadcaster.history) <= queue_maxsize
    /\ \A q \in Queues :
           /\ Len(broadcaster.queues[q].items) <= queue_maxsize
           /\ broadcaster.queues[q].made =>
                  /\ Len(broadcaster.queues[q].replayed) <= queue_maxsize
                  /\ broadcaster.queues[q].replayed =
                         LastN(SubSeq(broadcaster.published, 1, broadcaster.queues[q].since),
                               history_maxlen)

\* More entries were published than the history holds, a queue that was given
\* a full history is full, and another queue was made since
C33_Witness ==
    /\ Len(broadcaster.published) > history_maxlen
    /\ Len(broadcaster.history) = history_maxlen
    /\ \E q, other \in Queues :
           /\ q # other
           /\ Len(broadcaster.queues[q].replayed) = history_maxlen
           /\ Len(broadcaster.queues[q].items) = queue_maxsize
           /\ broadcaster.queues[other].made
           /\ broadcaster.queues[other].since > broadcaster.queues[q].since

====
